---- MODULE Spec2Model ----
(***************************************************************************)
(* A model of extract.py: the StoryId codec, the decoding of a bundle     *)
(* with its record key, the opening of the index database with its        *)
(* decrypt-to-plaintext fallback, and the extraction orchestrator (main's *)
(* dispatch loop and exportAsset's stages).                               *)
(*                                                                         *)
(* Strings are sequences of one-character strings, so that slicing,       *)
(* concatenation and prefix matching are computed as Python computes      *)
(* them.  Python's None is the value None below, which is no string of    *)
(* characters.                                                             *)
(***************************************************************************)
EXTENDS Integers, Sequences, FiniteSets, TLC

\* ------------------------------------------------------------------ bounds

\* Longest variable idx tail of a Home identifier drawn as a codec input.
MaxIdxTail == 3
\* Most rows the index query returns in one run.
MaxRecords == 2
\* Largest worker count given on the command line.
MaxWorkers == 2
\* Number of runs of the program over the same output directory.
MaxRuns == 2

\* Characters the identifier fields are drawn from.
Alpha == {"0", "1"}

\* ----------------------------------------------------------- Python values

None == <<"NONE">>

Min(a, b) == IF a < b THEN a ELSE b
Max(a, b) == IF a > b THEN a ELSE b

\* s[i:j] of Python for integers i, j: negative indices count from the end,
\* out-of-range indices are clamped, an empty range gives the empty string.
PySlice(s, i, j) ==
    LET n  == Len(s)
        lo == IF i < 0 THEN Max(i + n, 0) ELSE Min(i, n)
        hi == IF j < 0 THEN Max(j + n, 0) ELSE Min(j, n)
    IN  IF lo >= hi THEN <<>> ELSE SubSeq(s, lo + 1, hi)

\* s[i:]
PyFrom(s, i) ==
    LET n  == Len(s)
        lo == IF i < 0 THEN Max(i + n, 0) ELSE Min(i, n)
    IN  IF lo >= n THEN <<>> ELSE SubSeq(s, lo + 1, n)

\* s[:j]
PyTo(s, j) == PySlice(s, 0, j)

\* Python truthiness of an optional string.
Truthy(x) == x # None /\ x # <<>>

\* An f-string's rendering of an optional string: None prints as "None".
Fmt(x) == IF x = None THEN <<"N", "o", "n", "e">> ELSE x

\* All strings over Alpha of length exactly w.
Strs(w) == [1..w -> Alpha]

\* ------------------------------------------------------------------ StoryId

\* StoryId.__init__
StoryId(type, set, group, id, idx) ==
    IF type \in {"lyrics", "preview"}
    THEN [type  |-> type,
          set   |-> None,
          group |-> None,
          id    |-> IF ~Truthy(id) /\ Truthy(idx) THEN idx ELSE id,
          idx   |-> None]
    ELSE [type |-> type, set |-> set, group |-> group, id |-> id, idx |-> idx]

\* StoryId.__str__
Part(x) == IF x = None THEN <<>> ELSE x
Str(s) == Part(s.set) \o Part(s.group) \o Part(s.id) \o Part(s.idx)

\* A parse whose last slice of the short form stops one character early.
parseOffByOne(text_type, s) ==
    IF text_type \in {"lyrics", "preview"}
    THEN StoryId(text_type, None, None, s, None)
    ELSE IF Len(s) > 9 /\ text_type = "home"
    THEN StoryId(text_type, PyTo(s, 5), PySlice(s, 5, 7), PySlice(s, 7, 11), PyFrom(s, 12))
    ELSE StoryId(text_type, None, PyTo(s, 2), PySlice(s, 2, 6), PySlice(s, 6, 8))

\* StoryId.parse
parse(text_type, s) ==
    IF text_type \in {"lyrics", "preview"}
    THEN StoryId(text_type, None, None, s, None)
    ELSE IF Len(s) > 9 /\ text_type = "home"
    THEN StoryId(text_type, PyTo(s, 5), PySlice(s, 5, 7), PySlice(s, 7, 11), PyFrom(s, 11))
    ELSE StoryId(text_type, None, PyTo(s, 2), PySlice(s, 2, 6), PyFrom(s, 6))

\* A parseFromPath whose lyrics window ends 6 characters before the end.
parseFromPathShifted(text_type, path) ==
    IF text_type = "home"
    THEN LET p == PyFrom(path, -16)
         IN  StoryId(text_type, PyTo(p, 5), PySlice(p, 6, 8), PySlice(p, 9, 13), PyFrom(p, 13))
    ELSE IF text_type = "lyrics"
    THEN StoryId(text_type, None, None, PySlice(path, -10, -6), None)
    ELSE IF text_type = "preview"
    THEN StoryId(text_type, None, None, PyFrom(path, -4), None)
    ELSE LET p == PyFrom(path, -9)
         IN  StoryId(text_type, None, PyTo(p, 2), PySlice(p, 2, 6), PySlice(p, 6, 9))

\* StoryId.parseFromPath
parseFromPath(text_type, path) ==
    IF text_type = "home"
    THEN LET p == PyFrom(path, -16)
         IN  StoryId(text_type, PyTo(p, 5), PySlice(p, 6, 8), PySlice(p, 9, 13), PyFrom(p, 13))
    ELSE IF text_type = "lyrics"
    THEN StoryId(text_type, None, None, PySlice(path, -11, -7), None)
    ELSE IF text_type = "preview"
    THEN StoryId(text_type, None, None, PyFrom(path, -4), None)
    ELSE LET p == PyFrom(path, -9)
         IN  StoryId(text_type, None, PyTo(p, 2), PySlice(p, 2, 6), PySlice(p, 6, 9))

Underscores(w) == [i \in 1..w |-> "_"]

\* A queryfy that fills the id whether or not it was set.
queryfyOverwrite(storyId) ==
    LET s == StoryId(storyId.type, storyId.set, storyId.group, storyId.id, storyId.idx)
    IN  [type  |-> s.type,
         set   |-> IF s.set = None /\ s.type = "home" THEN Underscores(5) ELSE s.set,
         group |-> IF s.group = None /\ s.type # "lyrics" THEN Underscores(2) ELSE s.group,
         id    |-> Underscores(4),
         idx   |-> IF s.idx = None /\ s.type \notin {"lyrics", "preview"}
                   THEN Underscores(3) ELSE s.idx]

\* StoryId.queryfy
queryfy(storyId) ==
    LET s == StoryId(storyId.type, storyId.set, storyId.group, storyId.id, storyId.idx)
    IN  [type  |-> s.type,
         set   |-> IF s.set = None /\ s.type = "home" THEN Underscores(5) ELSE s.set,
         group |-> IF s.group = None /\ s.type # "lyrics" THEN Underscores(2) ELSE s.group,
         id    |-> IF s.id = None THEN Underscores(4) ELSE s.id,
         idx   |-> IF s.idx = None /\ s.type \notin {"lyrics", "preview"}
                   THEN Underscores(3) ELSE s.idx]

Raise == <<"RAISE">>

\* StoryId.asPath: the directory segments of the fields that are not None;
\* joinpath drops empty segments.
asPath(s) == SelectSeq(<<s.set, s.group, s.id>>, LAMBDA x : x # None /\ x # <<>>)

\* StoryId.getFilenameIdx (Raise is the AttributeError).
getFilenameIdx(s) ==
    IF s.type \in {"lyrics", "preview"} THEN s.id
    ELSE IF Truthy(s.idx) THEN s.idx
    ELSE Raise

\* ------------------------------------------------------------ file names

JSON == <<".", "j", "s", "o", "n">>
STORYTIMELINE_ == <<"s", "t", "o", "r", "y", "t", "i", "m", "e", "l", "i", "n", "e", "_">>
HOMETIMELINE_ == <<"h", "o", "m", "e", "t", "i", "m", "e", "l", "i", "n", "e", "_">>

\* ord() of the characters the model uses.
Ord(c) ==
    CASE c = "\t" -> 9
      [] c = " "  -> 32
      [] c = "("  -> 40
      [] c = ")"  -> 41
      [] c = "/"  -> 47
      [] c = "0"  -> 48
      [] c = "1"  -> 49
      [] c = "?"  -> 63
      [] c = "T"  -> 84
      [] c = "_"  -> 95
      [] OTHER    -> 97

\* sanitizeFilename
delSet == {34, 42, 47, 58, 60, 62, 63, 92, 124}
sanitizeFilename(fn) == SelectSeq(fn, LAMBDA c : Ord(c) > 31 /\ Ord(c) \notin delSet)

\* TYPE_CONFIG[type]["filename"](s, title): the filename template of a kind.
TypeConfigFilename(type, s, title) ==
    IF type = "story"
    THEN STORYTIMELINE_ \o Str(s) \o JSON
    ELSE IF type = "home"
    THEN HOMETIMELINE_ \o Fmt(s.set) \o <<"_">> \o Fmt(s.group) \o <<"_">>
             \o Fmt(s.id) \o Fmt(s.idx) \o JSON
    ELSE IF type = "preview" /\ title # <<>>
    THEN Fmt(s.id) \o <<" ", "(">> \o title \o <<")">> \o JSON
    ELSE Fmt(s.id) \o JSON

\* The literal parts of the query patterns of TYPE_CONFIG.
STORY_DATA ==
    <<"s", "t", "o", "r", "y", "/", "d", "a", "t", "a", "/">>
SLASH_STORYTIMELINE ==
    <<"/", "s", "t", "o", "r", "y", "t", "i", "m", "e", "l", "i", "n", "e">>
HOME_DATA ==
    <<"h", "o", "m", "e", "/", "d", "a", "t", "a", "/">>
SLASH_HOMETIMELINE_ ==
    <<"/", "h", "o", "m", "e", "t", "i", "m", "e", "l", "i", "n", "e", "_">>
LIVE_MUSICSCORES_M ==
    <<"l", "i", "v", "e", "/", "m", "u", "s", "i", "c", "s", "c", "o", "r",
      "e", "s", "/", "m">>
LYRICS ==
    <<"l", "y", "r", "i", "c", "s">>
AST_ANNOUNCE_EVENT_LOG_UI_ASSET ==
    <<"o", "u", "t", "g", "a", "m", "e", "/", "a", "n", "n", "o", "u", "n",
      "c", "e", "e", "v", "e", "n", "t", "/", "l", "o", "g", "u", "i", "a",
      "s", "s", "e", "t", "/", "a", "s", "t", "_", "a", "n", "n", "o", "u",
      "n", "c", "e", "_", "e", "v", "e", "n", "t", "_", "l", "o", "g", "_",
      "u", "i", "_", "a", "s", "s", "e", "t">>

\* TYPE_CONFIG[type]["pattern"](s): the LIKE pattern of a kind.
TypeConfigPattern(type, s) ==
    IF type = "story"
    THEN STORY_DATA \o Fmt(s.group) \o <<"/">> \o Fmt(s.id) \o SLASH_STORYTIMELINE
             \o <<"%">> \o Fmt(s.idx)
    ELSE IF type = "home"
    THEN HOME_DATA \o Fmt(s.set) \o <<"/">> \o Fmt(s.group) \o SLASH_HOMETIMELINE_
             \o Fmt(s.set) \o <<"_">> \o Fmt(s.group) \o <<"_">> \o Fmt(s.id)
             \o Fmt(s.idx) \o <<"%">>
    ELSE IF type = "lyrics"
    THEN LIVE_MUSICSCORES_M \o Fmt(s.id) \o <<"/", "m">> \o Fmt(s.id) \o <<"_">> \o LYRICS
    ELSE AST_ANNOUNCE_EVENT_LOG_UI_ASSET \o <<"_", "0">> \o Fmt(s.id)

\* n LIKE pattern of the index engine: % matches any string, _ any single
\* character; the letters of the model are all of one case.
RECURSIVE Like(_, _)
Like(pattern, n) ==
    IF pattern = <<>> THEN n = <<>>
    ELSE IF Head(pattern) = "%"
    THEN Like(Tail(pattern), n) \/ (n # <<>> /\ Like(pattern, Tail(n)))
    ELSE /\ n # <<>>
         /\ Head(pattern) = "_" \/ Head(pattern) = Head(n)
         /\ Like(Tail(pattern), Tail(n))

\* queryDB's pattern for an identifier (lines 454-455).
queryDBPattern(storyId) == TypeConfigPattern(storyId.type, queryfy(storyId))

\* The name under which extractAsset files the record (lines 558-565).
ExtractFilename(type, storyId, rawTitle) ==
    IF type = "story"
    THEN STORYTIMELINE_ \o Str(storyId) \o JSON
    ELSE IF type = "home"
    THEN HOMETIMELINE_ \o Fmt(storyId.set) \o <<"_">> \o Fmt(storyId.group) \o <<"_">>
             \o Fmt(storyId.id) \o Fmt(storyId.idx) \o JSON
    ELSE LET title == sanitizeFilename(rawTitle)
             idxString == IF title # <<>>
                          THEN Fmt(storyId.idx) \o <<" ", "(">> \o title \o <<")">>
                          ELSE getFilenameIdx(storyId)
         IN  Fmt(idxString) \o JSON

\* exportDir of exportAsset (lines 577-579), below the output root.
ExportDir(type, storyId) ==
    IF type \notin {"lyrics", "preview"} THEN <<<<type>>>> \o asPath(storyId) ELSE <<<<type>>>>

IsPrefix(p, s) == Len(p) <= Len(s) /\ SubSeq(s, 1, Len(p)) = p
IsSuffix(p, s) == Len(p) <= Len(s) /\ SubSeq(s, Len(s) - Len(p) + 1, Len(s)) = p

\* fnmatch of a name against "<stem>*.json"; the stems of the model hold no
\* glob metacharacter.
GlobMatch(stem, name) ==
    /\ Len(name) >= Len(stem) + Len(JSON)
    /\ IsPrefix(stem, name)
    /\ IsSuffix(JSON, name)

\* The existing-output check of exportAsset (lines 584-595) against the set
\* of files on disk: TRUE when the task returns None there.
OutputExists(type, storyId, files) ==
    LET dir == ExportDir(type, storyId)
    IN  IF type = "story"
        THEN \E f \in files : f.dir = dir /\ f.name = STORYTIMELINE_ \o Str(storyId) \o JSON
        ELSE IF type = "home"
        THEN \E f \in files :
                /\ f.dir = dir
                /\ f.name = HOMETIMELINE_ \o Fmt(storyId.set) \o <<"_">> \o Fmt(storyId.group)
                               \o <<"_">> \o Fmt(storyId.id) \o Fmt(storyId.idx) \o JSON
        ELSE \E f \in files : f.dir = dir /\ GlobMatch(Fmt(getFilenameIdx(storyId)), f.name)

\* ------------------------------------------------------- bundles on disk

\* GameBundle.editMark
editMark == <<8, 4>>

\* A variant that never recognises the marker.
is_patchedNever(bytes) == FALSE

\* GameBundle.is_patched on the bytes of an existing file: a seek before the
\* start of a file shorter than the mark raises, which is caught as False.
is_patched(bytes) ==
    IF Len(bytes) < 2 THEN FALSE
    ELSE SubSeq(bytes, Len(bytes) - 1, Len(bytes)) = editMark

\* GameBundle.createPath: the shard directory is name[0:2].
createPath(name) == <<PyTo(name, 2), name>>

\* ---------------------------------------------------------- bundle decoding

\* Longest base key drawn as an input of the key derivation.
MaxBaseLen == 3
\* Most bytes a bundle buffer drawn as an input has beyond its header.
MaxBufTail == 10

\* The length of the head of a bundle that is never encrypted.
HEADER == 256

\* BUNDLE_BASE_KEY, as bytes.fromhex gives it.
BUNDLE_BASE_KEY == <<83, 43, 70, 49, 228, 167, 185, 71, 62, 124, 251>>

\* a ^ b for two bytes.
RECURSIVE XorBits(_, _, _)
XorBits(a, b, n) ==
    IF n = 0 THEN 0
    ELSE (((a % 2) + (b % 2)) % 2) + 2 * XorBits(a \div 2, b \div 2, n - 1)
Xor(a, b) == XorBits(a, b, 8)

\* k >> 8n for a signed integer k (the shift keeps the sign).
RECURSIVE Shr(_, _)
Shr(k, n) == IF n = 0 THEN k ELSE Shr(k \div 256, n - 1)

\* int.to_bytes(8, byteorder="little", signed=True)
to_bytes(k) == [j \in 1..8 |-> Shr(k, j - 1) % 256]

\* A key derivation that takes the record key's bytes in big-endian order.
_create_final_keyBigEndian(base_key, bundle_key) ==
    LET kb == to_bytes(bundle_key)
    IN  [n \in 1..(Len(base_key) * 8) |->
            Xor(base_key[((n - 1) \div 8) + 1], kb[8 - ((n - 1) % 8)])]

\* GameBundle._create_final_key: final_key[(i << 3) + j] = base_key[i] ^
\* bundle_key[j], positions counted from 0.
_create_final_key(base_key, bundle_key) ==
    LET kb == to_bytes(bundle_key)
    IN  [n \in 1..(Len(base_key) * 8) |->
            Xor(base_key[((n - 1) \div 8) + 1], kb[((n - 1) % 8) + 1])]

\* A decoding that adds the key byte instead of combining it by XOR.
_decryptAdd(data, bundle_key) ==
    LET final_key == _create_final_key(BUNDLE_BASE_KEY, bundle_key)
    IN  [n \in 1..Len(data) |->
            IF n - 1 < HEADER THEN data[n]
            ELSE (data[n] + final_key[((n - 1) % Len(final_key)) + 1]) % 256]

\* A decoding that starts at the first byte of the file.
_decryptWholeFile(data, bundle_key) ==
    LET final_key == _create_final_key(BUNDLE_BASE_KEY, bundle_key)
    IN  [n \in 1..Len(data) |->
            Xor(data[n], final_key[((n - 1) % Len(final_key)) + 1])]

\* GameBundle._decrypt: positions 256.. of the copy are XORed with the key
\* byte at the position modulo the key's length.
_decrypt(data, bundle_key) ==
    LET final_key == _create_final_key(BUNDLE_BASE_KEY, bundle_key)
    IN  [n \in 1..Len(data) |->
            IF n - 1 < HEADER THEN data[n]
            ELSE Xor(data[n], final_key[((n - 1) % Len(final_key)) + 1])]

\* A load without the branch for the record key 0.
loadAlwaysDecrypt(file_data, bundle_key) ==
    IF Len(file_data) > HEADER
    THEN [data |-> _decrypt(file_data, bundle_key), derived |-> TRUE]
    ELSE [data |-> file_data, derived |-> FALSE]

\* Lines 335-341 of GameBundle.load: the bytes handed to the parser, and
\* whether _create_final_key was called on the way.
load(file_data, bundle_key) ==
    IF bundle_key = 0
    THEN [data |-> file_data, derived |-> FALSE]
    ELSE IF Len(file_data) > HEADER
    THEN [data |-> _decrypt(file_data, bundle_key), derived |-> TRUE]
    ELSE [data |-> file_data, derived |-> FALSE]

\* The loop of GameBundle.load that picks the root object: the index of the
\* first object with a schema whose tree materialises and holds BlockList or
\* TextTrack; 0 when there is none.
RootIndex(objects) ==
    LET ok == {i \in 1..Len(objects) :
                  /\ objects[i].nodes
                  /\ ~objects[i].raises
                  /\ objects[i].tree.keys \cap {"BlockList", "TextTrack"} # {}}
    IN  IF ok = {} THEN 0 ELSE CHOOSE i \in ok : \A j \in ok : i <= j

\* extractText: NoText is its None.  A lyrics row is the tuple (time, text),
\* of which the model keeps the text; the kind race is no target type.
NoText == [none |-> TRUE, jpName |-> "", jpText |-> "", choices |-> <<>>]
extractText(assetType, obj) ==
    IF assetType = "lyrics"
    THEN [none |-> FALSE, jpName |-> "", jpText |-> obj.Text, choices |-> <<>>]
    ELSE IF assetType = "preview"
    THEN [none |-> FALSE, jpName |-> obj.Name, jpText |-> obj.Text, choices |-> <<>>]
    ELSE IF obj.nodes
    THEN IF obj.Text # ""
         THEN [none |-> FALSE, jpName |-> obj.Name, jpText |-> obj.Text,
               choices |-> obj.ChoiceDataList]
         ELSE NoText
    ELSE NoText

RECURSIVE Flatten(_)
Flatten(ss) == IF ss = <<>> THEN <<>> ELSE Head(ss) \o Flatten(Tail(ss))

\* The h_block built for one text object (lines 534-542): the key
\* choice_data_list is present only when some choice has text.
HBlock(textData) ==
    [name |-> textData.jpName,
     text |-> textData.jpText,
     choice_data_list |-> SelectSeq(textData.choices, LAMBDA c : c # "")]

\* The walk of extractAsset (lines 516-553) over a tree that has the
\* kind's list field.
TextBlockList(type, tree, assets) ==
    IF type \in {"story", "home"}
    THEN LET clips == Flatten(tree.BlockList)
             found == SelectSeq(clips, LAMBDA pathId :
                          /\ pathId \in DOMAIN assets
                          /\ ~extractText(type, assets[pathId]).none)
         IN  [i \in 1..Len(found) |-> HBlock(extractText(type, assets[found[i]]))]
    ELSE IF type = "preview"
    THEN [i \in 1..Len(tree.DataArray) |->
             [name |-> extractText("preview", tree.DataArray[i]).jpName,
              text |-> extractText("preview", tree.DataArray[i]).jpText,
              choice_data_list |-> <<>>]]
    ELSE <<>>

no_wrap(type) == type = "home"

\* A task that files a record whatever it holds.
EmptyDiscardNever(text_block_list) == FALSE

\* Lines 555-556: a record without text blocks is discarded.
EmptyDiscard(text_block_list) == text_block_list = <<>>

\* extractAsset on an existing bundle file: "error" is an exception raised
\* by the parser or by the walk, "none" the return of None, "ok" the return
\* of (export, filename).
NoExport == [title |-> <<>>, no_wrap |-> FALSE, text_block_list |-> <<>>]
extractAsset(type, storyId, file) ==
    LET g    == file.graph
        r    == RootIndex(g.objects)
        tree == g.objects[r].tree
        need == IF type \in {"story", "home"} THEN {"BlockList"}
                ELSE IF type = "preview" THEN {"DataArray"} ELSE {}
        export == [title |-> IF "Title" \in tree.keys THEN tree.Title ELSE <<>>,
                   no_wrap |-> no_wrap(type),
                   text_block_list |-> TextBlockList(type, tree, g.assets)]
    IN  IF ~g.parses THEN [kind |-> "error", export |-> NoExport, filename |-> <<>>]
        ELSE IF r = 0 THEN [kind |-> "none", export |-> NoExport, filename |-> <<>>]
        ELSE IF ~(need \subseteq tree.keys)
        THEN [kind |-> "error", export |-> NoExport, filename |-> <<>>]
        ELSE IF EmptyDiscard(export.text_block_list)
        THEN [kind |-> "none", export |-> NoExport, filename |-> <<>>]
        ELSE [kind |-> "ok", export |-> export,
              filename |-> ExtractFilename(type, storyId, export.title)]

\* ------------------------------------------------- the index and the disk

Kinds == {"story", "home", "lyrics", "preview"}

\* A text object of a bundle, and a row of a preview's DataArray.
TextObj(name, text, choices) ==
    [nodes |-> TRUE, Name |-> name, Text |-> text, NextBlock |-> 0,
     ChoiceDataList |-> choices]

\* What the object-graph parser yields for a bundle of the given kind whose
\* root object has the title `title` and the text objects `texts`, the clips
\* naming path ids 1..Len(texts) and the path id 99 of no object.
Graph(type, title, texts) ==
    [parses  |-> TRUE,
     objects |-> << [nodes |-> FALSE, raises |-> FALSE,
                     tree |-> [keys |-> {}, Title |-> <<>>, BlockList |-> <<>>,
                               DataArray |-> <<>>]],
                    [nodes |-> TRUE, raises |-> FALSE,
                     tree |-> [keys |-> IF type \in {"story", "home"}
                                        THEN {"Title", "BlockList"}
                                        ELSE {"Title", "TextTrack", "DataArray"},
                               Title |-> title,
                               BlockList |-> << <<99>>, [i \in 1..Len(texts) |-> i] >>,
                               DataArray |-> texts]] >>,
     assets  |-> texts]

BrokenGraph == [parses |-> FALSE, objects |-> <<>>, assets |-> <<>>]

\* The output identifier fields of the records of the index.
RecSet == <<"0", "0", "0", "0", "1">>
RecGroup == <<"0", "1">>
RecIdx == <<"0", "0", "1">>
RecId(k) ==
    CASE k = 1 -> <<"0", "0", "0", "1">>
      [] k = 2 -> <<"0", "0", "1", "0">>
      [] k = 3 -> <<"0", "0", "1", "1">>
      [] k = 4 -> <<"0", "1", "0", "0">>
      [] k = 5 -> <<"0", "1", "0", "1">>
      [] k = 6 -> <<"0", "1", "1", "0">>
      [] k = 7 -> <<"0", "1", "1", "1">>
      [] OTHER -> <<"1", "0", "0", "0">>

\* The path hint (column n) of record k: the tail of the name the game gives
\* an asset of the kind.
PathHint(type, k) ==
    IF type = "home"
    THEN <<"e", "_">> \o RecSet \o <<"_">> \o RecGroup \o <<"_">> \o RecId(k) \o RecIdx
    ELSE IF type = "lyrics"
    THEN <<"m">> \o RecId(k) \o <<"_", "l", "y", "r", "i", "c", "s">>
    ELSE IF type = "preview"
    THEN <<"t", "_", "0">> \o RecId(k)
    ELSE <<"e", "_">> \o RecGroup \o RecId(k) \o RecIdx

\* A path hint shorter than the window of every kind.
ShortHint == <<"0", "1", "1">>

\* The rows of table a: content hash h, path hint n, record key e.  The rows
\* of Catalog carry the hint of their kind, as does row 8; row 7 carries
\* the short one.
Catalog == 1..6
Row(type, k) ==
    [h |-> <<"a", "b", "0">> \o RecId(k),
     n |-> IF k = 7 THEN ShortHint ELSE PathHint(type, k),
     e |-> IF k = 1 THEN 0 ELSE 7]

\* The bundle store: the file at createPath(h) of each row, absent for row 3.
\* Row 7, of the short hint, has a bundle like that of row 1; row 8 has a
\* bundle whose title sanitizes to that of row 2.
Absent == [exists |-> FALSE, bytes |-> <<>>, graph |-> BrokenGraph]
BundleFile(type, k) ==
    CASE k = 1 -> [exists |-> TRUE, bytes |-> <<85, 110, 105>>,
                   graph |-> Graph(type, <<>>, <<TextObj("", "Hello", <<>>)>>)]
      [] k = 2 -> [exists |-> TRUE, bytes |-> <<85, 4, 8>>,
                   graph |-> Graph(type, <<"T", "/">>,
                                   <<TextObj("Name", "A", <<"yes", "">>),
                                     TextObj("Name", "", <<>>)>>)]
      [] k = 3 -> Absent
      [] k = 4 -> [exists |-> TRUE, bytes |-> <<85, 8, 4>>,
                   graph |-> Graph(type, <<>>, <<TextObj("", "Patched", <<>>)>>)]
      [] k = 5 -> [exists |-> TRUE, bytes |-> <<85>>,
                   graph |-> Graph(type, <<>>,
                                   IF type = "preview" THEN <<>>
                                   ELSE <<TextObj("Name", "", <<>>)>>)]
      [] k = 6 -> [exists |-> TRUE, bytes |-> <<4>>, graph |-> BrokenGraph]
      [] k = 7 -> [exists |-> TRUE, bytes |-> <<85, 110>>,
                   graph |-> Graph(type, <<>>, <<TextObj("", "Short", <<>>)>>)]
      [] OTHER -> [exists |-> TRUE, bytes |-> <<85, 105>>,
                   graph |-> Graph(type, <<"T">>, <<TextObj("Name", "B", <<>>)>>)]

\* The file at a bundle path, looked up as the code does: by createPath(h).
Disk(type, path) ==
    IF \E k \in 1..8 : createPath(Row(type, k).h) = path
    THEN BundleFile(type, CHOOSE k \in 1..8 : createPath(Row(type, k).h) = path)
    ELSE Absent

\* Query results: the rows an identifier pattern selects, in the engine's
\* order, which is the order of the table; at most MaxRecords of them.
QueryResults ==
    {seq \in UNION {[1..n -> Catalog] : n \in 0..MaxRecords} :
        \A i \in 1..(Len(seq) - 1) : seq[i] < seq[i + 1]}

\* --------------------------------------------------------------- the state

\* Status codes of the native engine.
SQLITE_OK == 0
SQLITE_DONE == 101
\* Most batches a backup is stepped through before it completes or fails.
MaxBackupSteps == 2

VARIABLES
    args,         \* the parsed command line: type, overwrite, workers
    index,        \* the rows the index holds for the identifier pattern
    run,          \* the number of this run of the program
    pc,           \* main's position
    db,           \* main's db: None, "meta" or "decrypted"
    dbOpen,       \* whether the connection db is open
    dec,          \* the locals of decrypt_meta_file and backup_to_file
    fallbackCalls,\* calls of decrypt_meta_file in this run
    fatal,        \* the condition at which main returned early, "" if none
    queried,      \* whether queryDB was executed in this run
    q,            \* main's q, as rows of the catalog
    tasks,        \* the future of each submitted exportAsset call
    counted,      \* the futures the as_completed loop has taken
    success,      \* main's success
    skipped,      \* main's skipped
    processed,    \* main's processed
    outFiles,     \* the files below the output root
    written,      \* rows whose task returned a filename in an earlier run
                  \* that had no overwrite flag
    codec         \* the pure operation under test (SpecCodec, SpecBundle,
                  \* SpecPattern)

vars == <<args, index, run, pc, db, dbOpen, dec, fallbackCalls, fatal, queried, q,
          tasks, counted, success, skipped, processed, outFiles, written, codec>>

runVars == <<args, index, run, written>>
dbVars == <<db, dbOpen, dec, fallbackCalls, queried>>
poolVars == <<q, tasks, counted, success, skipped, processed>>

\* decrypt_meta_file's locals before the call and after its return.
NoDec == [srcOpen |-> FALSE, dstOpen |-> FALSE, steps |-> 0, finishes |-> 0,
          rc |-> SQLITE_OK, rc_bk |-> SQLITE_OK, result |-> FALSE]

CodecIdle == [op |-> "idle"]

InitRun ==
    /\ pc = "start"
    /\ db = None
    /\ dbOpen = FALSE
    /\ dec = NoDec
    /\ fallbackCalls = 0
    /\ fatal = ""
    /\ queried = FALSE
    /\ q = <<>>
    /\ tasks = <<>>
    /\ counted = {}
    /\ success = 0
    /\ skipped = 0
    /\ processed = 0

Init ==
    /\ args \in [type : Kinds, overwrite : BOOLEAN, workers : 1..MaxWorkers]
    /\ index \in QueryResults
    /\ run = 1
    /\ InitRun
    /\ outFiles = {}
    /\ written = {}
    /\ codec = CodecIdle

\* ------------------------------------------------- main: opening the index

\* Lines 636-641: the meta file is looked for.
CheckMeta ==
    /\ pc = "start"
    /\ \E exists \in BOOLEAN :
          IF exists
          THEN pc' = "open" /\ fatal' = fatal
          ELSE pc' = "exit" /\ fatal' = "meta missing"
    /\ UNCHANGED <<runVars, dbVars, poolVars, outFiles, codec>>

\* Lines 643-650: the direct open and the probe query.  A CantOpenError
\* leaves db None; a probe that fails leaves the connection in db.  An
\* exception of another class is not caught and is left out here.
DirectOpen ==
    /\ pc = "open"
    /\ \E outcome \in {"ok", "CantOpenError", "NotADBError", "SQLError"} :
          /\ pc' = IF outcome = "ok" THEN "query" ELSE "fallback"
          /\ db' = IF outcome = "CantOpenError" THEN None ELSE "meta"
          /\ dbOpen' = (outcome # "CantOpenError")
    /\ UNCHANGED <<runVars, dec, fallbackCalls, fatal, queried, poolVars, outFiles, codec>>

\* Line 654: the call of decrypt_meta_file.
Fallback ==
    /\ pc = "fallback"
    /\ fallbackCalls' = fallbackCalls + 1
    /\ dec' = NoDec
    /\ pc' = "dec_dll"
    /\ UNCHANGED <<runVars, db, dbOpen, fatal, queried, poolVars, outFiles, codec>>

\* decrypt_meta_file returns False with the given reason.
DecFails(why, d) ==
    /\ dec' = [d EXCEPT !.result = FALSE, !.srcOpen = FALSE]
    /\ fatal' = why
    /\ pc' = "dec_ret"

\* Lines 213-218: the native library is looked for.
DecDll ==
    /\ pc = "dec_dll"
    /\ \E present \in BOOLEAN :
          IF present
          THEN pc' = "dec_src" /\ UNCHANGED <<dec, fatal>>
          ELSE DecFails("library missing", dec)
    /\ UNCHANGED <<runVars, db, dbOpen, fallbackCalls, queried, poolVars, outFiles, codec>>

\* Lines 221-224: the library is loaded and the source opened; a failure
\* raises and is caught at line 240.
DecSrc ==
    /\ pc = "dec_src"
    /\ \E ok \in BOOLEAN :
          IF ok
          THEN /\ dec' = [dec EXCEPT !.srcOpen = TRUE]
               /\ pc' = "dec_key"
               /\ fatal' = fatal
          ELSE DecFails("source open failed", dec)
    /\ UNCHANGED <<runVars, db, dbOpen, fallbackCalls, queried, poolVars, outFiles, codec>>

\* Lines 226-230: the cipher is configured and the key presented.
DecKey ==
    /\ pc = "dec_key"
    /\ \E rc_key \in {SQLITE_OK, 1} :
          IF rc_key = SQLITE_OK
          THEN pc' = "bk_open" /\ UNCHANGED <<dec, fatal>>
          ELSE DecFails("key rejected", dec)
    /\ UNCHANGED <<runVars, db, dbOpen, fallbackCalls, queried, poolVars, outFiles, codec>>

\* Lines 182-185: backup_to_file opens the destination.
BkOpen ==
    /\ pc = "bk_open"
    /\ \E rc \in {SQLITE_OK, 14} :
          IF rc = SQLITE_OK
          THEN /\ dec' = [dec EXCEPT !.dstOpen = TRUE]
               /\ pc' = "bk_init"
               /\ fatal' = fatal
          ELSE DecFails("destination open failed", dec)
    /\ UNCHANGED <<runVars, db, dbOpen, fallbackCalls, queried, poolVars, outFiles, codec>>

\* backup_to_file returns rc (lines 195, 200 and 189, through the finally of
\* line 204) and decrypt_meta_file acts on it (lines 233-239).
BkReturns(rc, d) ==
    LET closed == [d EXCEPT !.dstOpen = FALSE, !.rc_bk = rc, !.srcOpen = FALSE]
    IN  /\ dec' = [closed EXCEPT !.result = (rc = SQLITE_OK)]
        /\ fatal' = IF rc = SQLITE_OK THEN fatal ELSE "backup failed"
        /\ pc' = "dec_ret"

\* A loop whose error branch returns the status without finishing the
\* backup.
BackupStepNoFinish(rc, d) ==
    IF rc = SQLITE_DONE
    THEN BkReturns(SQLITE_OK, [d EXCEPT !.rc = rc, !.finishes = d.finishes + 1])
    ELSE IF rc = SQLITE_OK
    THEN /\ dec' = [d EXCEPT !.rc = rc, !.steps = d.steps + 1]
         /\ UNCHANGED <<pc, fatal>>
    ELSE BkReturns(rc, [d EXCEPT !.rc = rc])

\* Lines 191-200: one turn of the loop on the status rc of the step, which
\* the local rc of backup_to_file holds.
BackupStep(rc, d) ==
    IF rc = SQLITE_DONE
    THEN BkReturns(SQLITE_OK, [d EXCEPT !.rc = rc, !.finishes = d.finishes + 1])
    ELSE IF rc = SQLITE_OK
    THEN /\ dec' = [d EXCEPT !.rc = rc, !.steps = d.steps + 1]
         /\ UNCHANGED <<pc, fatal>>
    ELSE BkReturns(rc, [d EXCEPT !.rc = rc, !.finishes = d.finishes + 1])

\* Lines 187-189: the backup handle is made.
BkInit ==
    /\ pc = "bk_init"
    /\ \E backup \in BOOLEAN :
          IF backup
          THEN pc' = "bk_step" /\ UNCHANGED <<dec, fatal>>
          ELSE BkReturns(1, dec)
    /\ UNCHANGED <<runVars, db, dbOpen, fallbackCalls, queried, poolVars, outFiles, codec>>

\* Line 192: the engine steps the backup and answers with a status; it
\* answers 0 at most MaxBackupSteps times.
BkStep ==
    /\ pc = "bk_step"
    /\ \E rc \in {SQLITE_OK, SQLITE_DONE, 5} :
          /\ rc = SQLITE_OK => dec.steps < MaxBackupSteps
          /\ BackupStep(rc, dec)
    /\ UNCHANGED <<runVars, db, dbOpen, fallbackCalls, queried, poolVars, outFiles, codec>>

\* A main that calls decrypt_meta_file again when it returned False.
DecReturnRetry ==
    /\ pc = "dec_ret"
    /\ pc' = IF dec.result THEN "reopen" ELSE "fallback"
    /\ dec' = NoDec
    /\ UNCHANGED <<runVars, db, dbOpen, fallbackCalls, fatal, queried, poolVars, outFiles, codec>>

\* A main whose else branch has lost its return: it goes on to the query.
DecReturnNoReturn ==
    /\ pc = "dec_ret"
    /\ pc' = IF dec.result THEN "reopen" ELSE "query"
    /\ dec' = NoDec
    /\ UNCHANGED <<runVars, db, dbOpen, fallbackCalls, fatal, queried, poolVars, outFiles, codec>>

\* Lines 654-663: main acts on the result of decrypt_meta_file.
DecReturn ==
    /\ pc = "dec_ret"
    /\ pc' = IF dec.result THEN "reopen" ELSE "exit"
    /\ dec' = NoDec
    /\ UNCHANGED <<runVars, db, dbOpen, fallbackCalls, fatal, queried, poolVars, outFiles, codec>>

\* Lines 655-660: the plaintext copy is opened.
Reopen ==
    /\ pc = "reopen"
    /\ \E ok \in BOOLEAN :
          IF ok
          THEN /\ db' = "decrypted"
               /\ dbOpen' = TRUE
               /\ pc' = "query"
               /\ fatal' = fatal
          ELSE /\ pc' = "exit"
               /\ fatal' = "reopen failed"
               /\ UNCHANGED <<db, dbOpen>>
    /\ UNCHANGED <<runVars, dec, fallbackCalls, queried, poolVars, outFiles, codec>>

\* ------------------------------------------------ main: query and dispatch

\* The future of a submitted call that no worker has picked up.
Queued(k) ==
    [row |-> k, st |-> "queued", storyId |-> None, read |-> FALSE, why |-> "",
     result |-> None, raised |-> FALSE, export |-> NoExport, filename |-> <<>>]

\* The pre-flight check of lines 671-684 on a non-empty result: TRUE when
\* main returns.
PreflightAborts(type, rows) ==
    rows # <<>> /\ ~Disk(type, createPath(Row(type, rows[1]).h)).exists

\* Lines 665-684: the query, and the pre-flight check; the finally of line
\* 711 closes db on the early return.
Query ==
    /\ pc = "query"
    /\ queried' = TRUE
    /\ q' = index
    /\ IF PreflightAborts(args.type, index)
       THEN pc' = "exit" /\ fatal' = "asset not found" /\ dbOpen' = FALSE
       ELSE pc' = "dispatch" /\ UNCHANGED <<fatal, dbOpen>>
    /\ UNCHANGED <<runVars, db, dec, fallbackCalls, tasks, counted, success, skipped,
                   processed, outFiles, codec>>

\* Lines 686-695: every row is submitted to the pool, then the counters are
\* zeroed.
Dispatch ==
    /\ pc = "dispatch"
    /\ tasks' = [i \in 1..Len(q) |-> Queued(q[i])]
    /\ counted' = {}
    /\ success' = 0
    /\ skipped' = 0
    /\ processed' = 0
    /\ pc' = "collect"
    /\ UNCHANGED <<runVars, dbVars, fatal, q, outFiles, codec>>

\* ------------------------------------------------------------ exportAsset

Running(i) == tasks[i].st = "ready"

\* A worker of the pool is free and every earlier submission was picked up:
\* max(1, args.workers) threads take the work queue in order.
MayStart(i) ==
    /\ Cardinality({j \in 1..Len(tasks) : Running(j)}) < Max(1, args.workers)
    /\ \A j \in 1..(i - 1) : tasks[j].st # "queued"

\* The task returns None at the named stage.
ReturnsNone(t, why) == [t EXCEPT !.st = "done", !.why = why, !.result = None]

\* Lines 584-595: the task returns None when its output is on disk.
SkipExisting(overwrite, type, storyId, files) ==
    ~overwrite /\ OutputExists(type, storyId, files)

\* Lines 597-623, for a task that passed the existing-output check: the
\* bundle is resolved, tested for the marker, loaded and walked.  read marks
\* the call of extractAsset, which loads the bundle.
LoadAndExtract(t, file) ==
    LET r  == extractAsset(args.type, t.storyId, file)
        rd == [t EXCEPT !.read = TRUE]
    IN  IF ~file.exists THEN ReturnsNone(t, "absent")
        ELSE IF is_patched(file.bytes) THEN ReturnsNone(t, "patched")
        ELSE IF r.kind = "error" THEN ReturnsNone(rd, "error")
        ELSE IF r.kind = "none" THEN ReturnsNone(rd, "nothing")
        ELSE [rd EXCEPT !.st = "ready", !.export = r.export, !.filename = r.filename]

\* Lines 570-623: exportAsset up to its write.  The identifier is parsed and
\* the existing output looked for; then the bundle, which no run changes, is
\* resolved, tested, loaded and walked.
TaskStart(i) ==
    /\ pc \in {"collect", "unwind"}
    /\ i \in 1..Len(tasks)
    /\ tasks[i].st = "queued"
    /\ MayStart(i)
    /\ LET storyId == parseFromPath(args.type, Row(args.type, tasks[i].row).n)
           t == [tasks[i] EXCEPT !.storyId = storyId]
           file == Disk(args.type, createPath(Row(args.type, t.row).h))
       IN  tasks' = [tasks EXCEPT ![i] =
                        IF SkipExisting(args.overwrite, args.type, storyId, outFiles)
                        THEN ReturnsNone(t, "exists")
                        ELSE LoadAndExtract(t, file)]
    /\ UNCHANGED <<runVars, dbVars, pc, fatal, q, counted, success, skipped, processed,
                   outFiles, codec>>

\* The file a task writes: complete after the dump, else cut short.
OutFile(t, complete) ==
    [dir |-> ExportDir(args.type, t.storyId), name |-> t.filename,
     complete |-> complete,
     data |-> IF complete THEN t.export ELSE NoExport]

SamePath(f, g) == f.dir = g.dir /\ f.name = g.name

\* The task ends with an exception that nothing in exportAsset catches.
Raises(t, why) ==
    [t EXCEPT !.st = "done", !.why = why, !.raised = TRUE,
              !.export = NoExport, !.filename = <<>>]

\* Lines 628-630 and 109-114: the directories are made, the file is opened
\* for writing, which empties it, the document is dumped and the filename
\* returned.  mkdir and open may raise OSError, which leaves the disk as it
\* was; the dump may raise it, which leaves the file cut short.
TaskWrite(i) ==
    /\ pc \in {"collect", "unwind"}
    /\ i \in 1..Len(tasks)
    /\ tasks[i].st = "ready"
    /\ \E outcome \in {"written", "open raised", "dump raised"} :
          IF outcome = "open raised"
          THEN /\ tasks' = [tasks EXCEPT ![i] = Raises(tasks[i], outcome)]
               /\ UNCHANGED outFiles
          ELSE /\ outFiles' = {f \in outFiles : ~SamePath(f, OutFile(tasks[i], TRUE))}
                                 \cup {OutFile(tasks[i], outcome = "written")}
               /\ tasks' = [tasks EXCEPT ![i] =
                               IF outcome = "written"
                               THEN [tasks[i] EXCEPT !.st = "done", !.why = "written",
                                                     !.result = tasks[i].filename,
                                                     !.export = NoExport]
                               ELSE Raises(tasks[i], outcome)]
    /\ UNCHANGED <<runVars, dbVars, pc, fatal, q, counted, success, skipped, processed,
                   codec>>

\* --------------------------------------------------- main: the tally loop

\* A loop whose skipped count has lost its else: it counts every future.
CollectNoElse(i) ==
    /\ pc = "collect"
    /\ i \in 1..Len(tasks)
    /\ i \notin counted
    /\ tasks[i].st = "done"
    /\ counted' = counted \cup {i}
    /\ processed' = processed + 1
    /\ IF tasks[i].raised
       THEN pc' = "unwind" /\ UNCHANGED <<success, skipped>>
       ELSE /\ success' = IF Truthy(tasks[i].result) THEN success + 1 ELSE success
            /\ skipped' = skipped + 1
            /\ pc' = pc
    /\ UNCHANGED <<runVars, dbVars, fatal, q, tasks, outFiles, codec>>

\* Lines 696-706: as_completed hands over a finished future; result()
\* raises what the task raised, which leaves the loop.
Collect(i) ==
    /\ pc = "collect"
    /\ i \in 1..Len(tasks)
    /\ i \notin counted
    /\ tasks[i].st = "done"
    /\ counted' = counted \cup {i}
    /\ processed' = processed + 1
    /\ IF tasks[i].raised
       THEN pc' = "unwind" /\ UNCHANGED <<success, skipped>>
       ELSE IF Truthy(tasks[i].result)
       THEN success' = success + 1 /\ UNCHANGED <<pc, skipped>>
       ELSE skipped' = skipped + 1 /\ UNCHANGED <<pc, success>>
    /\ UNCHANGED <<runVars, dbVars, fatal, q, tasks, outFiles, codec>>

\* Lines 708-713: every future was taken; the pool is shut down, the tally
\* printed and db closed.
Tally ==
    /\ pc = "collect"
    /\ counted = 1..Len(tasks)
    /\ pc' = "done"
    /\ dbOpen' = FALSE
    /\ UNCHANGED <<runVars, db, dec, fallbackCalls, queried, fatal, poolVars, outFiles, codec>>

\* The exception leaves the with block, whose exit waits for every task,
\* then the finally of line 711 closes db and main ends with the exception.
Unwind ==
    /\ pc = "unwind"
    /\ \A i \in 1..Len(tasks) : tasks[i].st = "done"
    /\ pc' = "crashed"
    /\ dbOpen' = FALSE
    /\ UNCHANGED <<runVars, db, dec, fallbackCalls, queried, fatal, poolVars, outFiles, codec>>

\* The program is run again on the same index and output root, with or
\* without the overwrite flag.
Ended == pc \in {"done", "exit", "crashed"}
NewRun ==
    /\ Ended
    /\ run < MaxRuns
    /\ run' = run + 1
    /\ \E o \in BOOLEAN : args' = [args EXCEPT !.overwrite = o]
    /\ written' = IF args.overwrite THEN written
                  ELSE written \cup {tasks[i].row : i \in {j \in 1..Len(tasks) :
                                        tasks[j].st = "done" /\ tasks[j].why = "written"}}
    /\ pc' = "start"
    /\ db' = None
    /\ dbOpen' = FALSE
    /\ dec' = NoDec
    /\ fallbackCalls' = 0
    /\ fatal' = ""
    /\ queried' = FALSE
    /\ q' = <<>>
    /\ tasks' = <<>>
    /\ counted' = {}
    /\ success' = 0
    /\ skipped' = 0
    /\ processed' = 0
    /\ UNCHANGED <<index, outFiles, codec>>

Next ==
    \/ CheckMeta
    \/ DirectOpen
    \/ Fallback
    \/ DecDll
    \/ DecSrc
    \/ DecKey
    \/ BkOpen
    \/ BkInit
    \/ BkStep
    \/ DecReturn
    \/ Reopen
    \/ Query
    \/ Dispatch
    \/ \E i \in 1..MaxRecords : TaskStart(i)
    \/ \E i \in 1..MaxRecords : TaskWrite(i)
    \/ \E i \in 1..MaxRecords : Collect(i)
    \/ Tally
    \/ Unwind
    \/ NewRun

Spec == Init /\ [][Next]_vars

\* The same program over an index whose last row carries the short path
\* hint.
ShortHintResults == {seq \o <<7>> : seq \in {r \in QueryResults : Len(r) < MaxRecords}}
InitShortHint ==
    /\ args \in [type : Kinds, overwrite : BOOLEAN, workers : 1..MaxWorkers]
    /\ index \in ShortHintResults
    /\ run = 1
    /\ InitRun
    /\ outFiles = {}
    /\ written = {}
    /\ codec = CodecIdle

SpecShortHint == InitShortHint /\ [][Next]_vars

\* The same program over an index that holds two records whose bundles
\* carry the same title after sanitizing (rows 2 and 8), alone or after
\* another row.
SameTitleResults ==
    {r \in {<<2>>, <<8>>, <<1, 8>>, <<2, 8>>, <<1, 2, 8>>} : Len(r) <= MaxRecords}
InitSameTitle ==
    /\ args \in [type : Kinds, overwrite : BOOLEAN, workers : 1..MaxWorkers]
    /\ index \in SameTitleResults
    /\ run = 1
    /\ InitRun
    /\ outFiles = {}
    /\ written = {}
    /\ codec = CodecIdle

SpecSameTitle == InitSameTitle /\ [][Next]_vars

\* ------------------------------------------------------- the codec alone

\* The values a field is given on the command line: None when the option is
\* absent, else a string.
SetVals == {None, <<"0", "0", "0", "0", "0">>, <<"0", "1", "0", "1", "1">>,
            <<"1", "0", "0", "1", "0">>, <<"1", "1", "1", "1", "1">>}
GroupVals == {None} \cup Strs(2)
IdVals == {None, <<>>} \cup Strs(4)
IdxVals == {None} \cup UNION {Strs(n) : n \in 1..MaxIdxTail}

\* Longest path hint (column n) drawn as a codec input.
MaxPathLen == 18
\* Path hints of every length up to MaxPathLen, neighbouring characters
\* distinct.
Digit == <<"0", "1", "2", "3", "4", "5", "6", "7", "8", "9">>
PathStr(n, seed) == [i \in 1..n |-> Digit[((i * seed) % 10) + 1]]
PathVals == {PathStr(n, seed) : n \in 0..MaxPathLen, seed \in {1, 3, 7}}

InitCodec ==
    /\ args = [type |-> "story", overwrite |-> FALSE, workers |-> 1]
    /\ index = <<>>
    /\ run = 1
    /\ InitRun
    /\ outFiles = {}
    /\ written = {}
    /\ \/ codec \in [op : {"new"}, type : Kinds, set : SetVals, group : GroupVals,
                     id : IdVals, idx : IdxVals, ident : {None}, text : {None},
                     out : {None}, path : {None}]
       \/ codec \in [op : {"hint"}, type : Kinds, set : {None}, group : {None},
                     id : {None}, idx : {None}, ident : {None}, text : {None},
                     out : {None}, path : PathVals]

\* StoryId(type, set, group, id, idx): the identifier is constructed.
CodecConstruct ==
    /\ codec.op = "new"
    /\ codec' = [codec EXCEPT !.op = "ident",
                    !.ident = StoryId(codec.type, codec.set, codec.group, codec.id,
                                      codec.idx)]
    /\ UNCHANGED <<runVars, dbVars, pc, fatal, poolVars, outFiles>>

\* str(storyId)
CodecRender ==
    /\ codec.op = "ident"
    /\ codec' = [codec EXCEPT !.op = "text", !.text = Str(codec.ident)]
    /\ UNCHANGED <<runVars, dbVars, pc, fatal, poolVars, outFiles>>

\* StoryId.parse(type, text)
CodecParse ==
    /\ codec.op = "text"
    /\ codec' = [codec EXCEPT !.op = "parsed", !.out = parse(codec.type, codec.text)]
    /\ UNCHANGED <<runVars, dbVars, pc, fatal, poolVars, outFiles>>

\* StoryId.queryfy(storyId)
CodecQueryfy ==
    /\ codec.op = "ident"
    /\ codec' = [codec EXCEPT !.op = "queried", !.out = queryfy(codec.ident)]
    /\ UNCHANGED <<runVars, dbVars, pc, fatal, poolVars, outFiles>>

\* StoryId.parseFromPath(type, path)
CodecParseFromPath ==
    /\ codec.op = "hint"
    /\ codec' = [codec EXCEPT !.op = "located",
                    !.out = parseFromPath(codec.type, codec.path)]
    /\ UNCHANGED <<runVars, dbVars, pc, fatal, poolVars, outFiles>>

\* StoryId.queryfy on the identifier parseFromPath gave.
CodecQueryfyLocated ==
    /\ codec.op = "located"
    /\ codec' = [codec EXCEPT !.op = "located queried", !.ident = codec.out,
                    !.out = queryfy(codec.out)]
    /\ UNCHANGED <<runVars, dbVars, pc, fatal, poolVars, outFiles>>

NextCodec ==
    \/ CodecConstruct
    \/ CodecRender
    \/ CodecParse
    \/ CodecQueryfy
    \/ CodecParseFromPath
    \/ CodecQueryfyLocated

SpecCodec == InitCodec /\ [][NextCodec]_vars

\* ------------------------------------------------- bundle decoding alone

\* Base keys: the heads of BUNDLE_BASE_KEY and the two extreme bytes.
BaseKeys == {SubSeq(BUNDLE_BASE_KEY, 1, n) : n \in 0..MaxBaseLen} \cup {<<0>>, <<255>>}
\* Record keys (column e): zero, small, byte-boundary and negative values.
RecordKeys == {0, 1, 7, 255, 256, 65537, 2147483647, -1, -2, -256, -2147483647}
\* Bundle buffers: shorter than, as long as and longer than the header.
Buf(n, seed) == [p \in 1..n |-> (seed + 7 * p) % 256]
BufLens == {0, 1} \cup {HEADER - 1 + t : t \in 0..(MaxBufTail + 1)}
Bufs == {Buf(n, seed) : n \in BufLens, seed \in {0, 3, 250}}

InitBundle ==
    /\ args = [type |-> "story", overwrite |-> FALSE, workers |-> 1]
    /\ index = <<>>
    /\ run = 1
    /\ InitRun
    /\ outFiles = {}
    /\ written = {}
    /\ codec \in [op : {"bundle"}, base : BaseKeys, key : RecordKeys, raw : Bufs,
                  final_key : {<<>>}, data : {<<>>}, derived : {FALSE}, again : {<<>>}]

\* _create_final_key for a base key and a record key.
BundleKey ==
    /\ codec.op = "bundle"
    /\ codec' = [codec EXCEPT !.op = "keyed",
                    !.final_key = _create_final_key(codec.base, codec.key)]
    /\ UNCHANGED <<runVars, dbVars, pc, fatal, poolVars, outFiles>>

\* GameBundle.load on a bundle file with the bytes raw.
BundleLoad ==
    /\ codec.op = "bundle"
    /\ codec' = [codec EXCEPT !.op = "loaded",
                    !.data = load(codec.raw, codec.key).data,
                    !.derived = load(codec.raw, codec.key).derived]
    /\ UNCHANGED <<runVars, dbVars, pc, fatal, poolVars, outFiles>>

\* GameBundle.load on a file that holds the bytes the first load decoded.
BundleReload ==
    /\ codec.op = "loaded"
    /\ codec' = [codec EXCEPT !.op = "reloaded",
                    !.again = load(codec.data, codec.key).data]
    /\ UNCHANGED <<runVars, dbVars, pc, fatal, poolVars, outFiles>>

NextBundle ==
    \/ BundleKey
    \/ BundleLoad
    \/ BundleReload

SpecBundle == InitBundle /\ [][NextBundle]_vars

\* ------------------------------------------- query pattern and path hint

\* Most characters a path hint of the index carries after its idx.
MaxHintTail == 1

\* The option values of a run narrowed to one identifier.
ArgSets(type) ==
    IF type = "home" THEN {<<"0", "0", "0", "0", "0">>, <<"0", "0", "0", "0", "1">>}
    ELSE {None}
ArgGroups(type) ==
    IF type \in {"story", "home"} THEN {<<"0", "1">>, <<"1", "0">>} ELSE {None}
ArgIds == {RecId(1), RecId(2)}
ArgIdxs(type) ==
    IF type \in {"story", "home"} THEN {<<"0", "0", "0">>, <<"0", "0", "1">>} ELSE {None}

\* The name the game gives the asset of an identifier (column n).
GameName(type, s) ==
    IF type = "story"
    THEN STORY_DATA \o s.group \o <<"/">> \o s.id \o SLASH_STORYTIMELINE
             \o <<"_">> \o s.group \o s.id \o s.idx
    ELSE IF type = "home"
    THEN HOME_DATA \o s.set \o <<"/">> \o s.group \o SLASH_HOMETIMELINE_
             \o s.set \o <<"_">> \o s.group \o <<"_">> \o s.id \o s.idx
    ELSE IF type = "lyrics"
    THEN LIVE_MUSICSCORES_M \o s.id \o <<"/", "m">> \o s.id \o <<"_">> \o LYRICS
    ELSE AST_ANNOUNCE_EVENT_LOG_UI_ASSET \o <<"_", "0">> \o s.id

\* Values of column n: the game's names, and names of the same directory
\* whose file part holds another group and id, no such part, or characters
\* after the idx.
HintTails == {[i \in 1..k |-> "0"] : k \in 0..MaxHintTail}
Hints(type) ==
    IF type = "story"
    THEN {STORY_DATA \o g \o <<"/">> \o i \o SLASH_STORYTIMELINE \o m \o x :
             g \in ArgGroups(type), i \in ArgIds, x \in ArgIdxs(type),
             m \in {<<"_">> \o g2 \o i2 : g2 \in ArgGroups(type), i2 \in ArgIds}
                      \cup {<<>>, <<"_">>}}
    ELSE IF type = "home"
    THEN {GameName(type, [set |-> st, group |-> g, id |-> i, idx |-> x]) \o t :
             st \in ArgSets(type), g \in ArgGroups(type), i \in ArgIds,
             x \in ArgIdxs(type), t \in HintTails}
    ELSE IF type = "lyrics"
    THEN {LIVE_MUSICSCORES_M \o i \o <<"/", "m">> \o i2 \o <<c>> \o LYRICS :
             i \in ArgIds, i2 \in ArgIds, c \in {"_", "x"}}
    ELSE {AST_ANNOUNCE_EVENT_LOG_UI_ASSET \o <<c, "0">> \o i :
             i \in ArgIds, c \in {"_", "x"}}

InitPattern ==
    /\ args = [type |-> "story", overwrite |-> FALSE, workers |-> 1]
    /\ index = <<>>
    /\ run = 1
    /\ InitRun
    /\ outFiles = {}
    /\ written = {}
    /\ \E t \in Kinds :
          codec \in [op : {"row"}, type : {t}, set : ArgSets(t), group : ArgGroups(t),
                     id : ArgIds, idx : ArgIdxs(t), n : Hints(t), pattern : {<<>>},
                     out : {None}]

\* Lines 666 and 449-460: the identifier of the options is queryfied, the
\* pattern made, and the row selected when its n is LIKE the pattern.
PatternQuery ==
    /\ codec.op = "row"
    /\ LET pattern == queryDBPattern(StoryId(codec.type, codec.set, codec.group,
                                             codec.id, codec.idx))
       IN  codec' = [codec EXCEPT !.pattern = pattern,
                        !.op = IF Like(pattern, codec.n) THEN "selected" ELSE "rejected"]
    /\ UNCHANGED <<runVars, dbVars, pc, fatal, poolVars, outFiles>>

\* Line 572: exportAsset parses the n of a selected row.
PatternExport ==
    /\ codec.op = "selected"
    /\ codec' = [codec EXCEPT !.op = "exported",
                    !.out = parseFromPath(codec.type, codec.n)]
    /\ UNCHANGED <<runVars, dbVars, pc, fatal, poolVars, outFiles>>

NextPattern ==
    \/ PatternQuery
    \/ PatternExport

SpecPattern == InitPattern /\ [][NextPattern]_vars

\* ------------------------------------------------------------ properties

IsStr(x, w) == x # None /\ Len(x) = w

\* The field tuples that are valid for a kind.
ValidTuple(c) ==
    IF c.type = "story"
    THEN c.set = None /\ IsStr(c.group, 2) /\ IsStr(c.id, 4) /\ IsStr(c.idx, 3)
    ELSE IF c.type = "home"
    THEN IsStr(c.set, 5) /\ IsStr(c.group, 2) /\ IsStr(c.id, 4) /\ Truthy(c.idx)
    ELSE c.set = None /\ c.group = None /\ c.id # None /\ c.idx = None

\* C9: for every kind and every valid field tuple of the kind, parsing the
\* string rendering of the identifier with the same kind gives an identifier
\* with the same type, set, group, id and idx.
C9_ParseRenderRoundTrip ==
    (codec.op = "parsed" /\ ValidTuple(codec)) =>
        /\ codec.ident = [type |-> codec.type, set |-> codec.set, group |-> codec.group,
                          id |-> codec.id, idx |-> codec.idx]
        /\ codec.out = codec.ident

\* A Home identifier with a two-character idx tail was rendered and parsed.
C9_Witness ==
    /\ codec.op = "parsed"
    /\ ValidTuple(codec)
    /\ codec.type = "home"
    /\ codec.idx = <<"1", "0">>
    /\ codec.text = <<"1", "0", "0", "1", "0", "0", "1", "0", "1", "1", "0", "1", "0">>

FieldsOf(s) == <<s.set, s.group, s.id, s.idx>>
\* The declared widths of set, group, id and idx.
Widths == <<5, 2, 4, 3>>

\* C10: queryfy returns a copy in which every field set in the input keeps
\* its value and every other field is still unset or is a run of underscores
\* of the field's declared width (set 5, group 2, id 4, idx 3); the type is
\* kept and the input identifier is what it was.
C10_QueryfyFillsOnlyUnset ==
    codec.op = "queried" =>
        /\ codec.ident = StoryId(codec.type, codec.set, codec.group, codec.id, codec.idx)
        /\ codec.out.type = codec.ident.type
        /\ \A f \in 1..4 :
              IF FieldsOf(codec.ident)[f] # None
              THEN FieldsOf(codec.out)[f] = FieldsOf(codec.ident)[f]
              ELSE \/ FieldsOf(codec.out)[f] = None
                   \/ FieldsOf(codec.out)[f] = [i \in 1..Widths[f] |-> "_"]

\* A Home identifier with only its id set was queryfied: set, group and idx
\* were filled, the id kept.
C10_Witness ==
    /\ codec.op = "queried"
    /\ codec.type = "home"
    /\ codec.ident.set = None /\ codec.ident.group = None /\ codec.ident.idx = None
    /\ codec.ident.id = <<"0", "1", "1", "0">>
    /\ codec.out = [type |-> "home", set |-> <<"_", "_", "_", "_", "_">>,
                    group |-> <<"_", "_">>, id |-> <<"0", "1", "1", "0">>,
                    idx |-> <<"_", "_", "_">>]

\* The bundle file of the row a task works on.
FileOf(t) == Disk(args.type, createPath(Row(args.type, t.row).h))

Tasks == 1..Len(tasks)
Returned(i) == tasks[i].st = "done" /\ ~tasks[i].raised

\* C1: a record that a run without the overwrite flag ended in Written is,
\* in a later run without the overwrite flag, Skipped at the existing-output
\* check, before its bundle is read or decoded.
C1_SecondRunSkips ==
    \A i \in Tasks :
        (~args.overwrite /\ tasks[i].row \in written /\ tasks[i].st # "queued") =>
            /\ tasks[i].st = "done"
            /\ tasks[i].why = "exists"
            /\ ~tasks[i].read

\* The same for the kinds whose output name the check recomputes.
C1_StoryHomeSecondRunSkips ==
    args.type \in {"story", "home"} => C1_SecondRunSkips

\* C2: when the run reports its tally, the extracted count plus the
\* skipped/failed count is the number of records of the query result, and
\* each record went into exactly one of the counts: success counts the
\* futures taken that returned a filename, skipped those that returned None.
C2_TallyEqualsTotal ==
    /\ pc \in {"collect", "unwind", "done", "crashed"} =>
          /\ success = Cardinality({i \in counted : Returned(i) /\ Truthy(tasks[i].result)})
          /\ skipped = Cardinality({i \in counted : Returned(i) /\ ~Truthy(tasks[i].result)})
          /\ processed = Cardinality(counted)
    /\ pc = "done" =>
          /\ counted = 1..Len(q)
          /\ Len(tasks) = Len(q)
          /\ success + skipped = Len(q)

\* A run with two workers reported a tally of one extracted and one skipped
\* record.
C2_Witness ==
    /\ pc = "done"
    /\ args.workers = 2
    /\ Len(q) = 2
    /\ success = 1
    /\ skipped = 1

\* C3: a failure of one task at any of its stages ends only that task: no
\* exception of a task reaches the dispatcher, which therefore never leaves
\* the tally loop but to report the tally.
C3_FailureStaysInTask == pc \notin {"unwind", "crashed"}

\* C4: an absent bundle file is a per-record skip for every record of the
\* query result, the first included: a run that made the query and ended
\* without an exception has dispatched every record, counted the records
\* without bundle as skipped and reported the tally.
C4_AbsentBundleIsSkip ==
    (queried /\ pc \in {"exit", "done"}) =>
        /\ pc = "done"
        /\ Len(tasks) = Len(q)
        /\ \A i \in Tasks :
              ~FileOf(tasks[i]).exists =>
                  i \in counted /\ Returned(i) /\ ~Truthy(tasks[i].result)

\* C5: a task whose bundle ends with the two-byte marker never reaches the
\* decode stage, writes nothing, returns None, and is counted as skipped.
EndsWithMarker(bytes) ==
    Len(bytes) >= 2 /\ bytes[Len(bytes) - 1] = 8 /\ bytes[Len(bytes)] = 4
PatchedTasks == {i \in Tasks : FileOf(tasks[i]).exists /\ EndsWithMarker(FileOf(tasks[i]).bytes)}
C5_PatchedNeverDecoded ==
    /\ \A i \in PatchedTasks :
          /\ ~tasks[i].read
          /\ tasks[i].st # "ready"
          /\ ~tasks[i].raised
          /\ tasks[i].result = None
          /\ tasks[i].st = "done" => tasks[i].why \in {"patched", "exists"}
    /\ pc = "done" =>
          /\ skipped >= Cardinality(PatchedTasks)
          /\ success <= Len(q) - Cardinality(PatchedTasks)

\* A task found the marker and the run counted it as skipped.
C5_Witness ==
    /\ pc = "done"
    /\ \E i \in PatchedTasks : tasks[i].why = "patched" /\ i \in counted
    /\ skipped >= 1

\* C6: every file a task has written holds a non-empty text block list, and
\* a task whose walk of the schema gives an empty list writes nothing and
\* returns None.
WalksEmpty(t) ==
    LET g == FileOf(t).graph
    IN  /\ FileOf(t).exists
        /\ g.parses
        /\ RootIndex(g.objects) # 0
        /\ TextBlockList(args.type, g.objects[RootIndex(g.objects)].tree, g.assets) = <<>>
C6_NoEmptyRecordWritten ==
    /\ \A f \in outFiles : f.complete => f.data.text_block_list # <<>>
    /\ \A i \in Tasks :
          /\ tasks[i].st = "ready" => tasks[i].export.text_block_list # <<>>
          /\ WalksEmpty(tasks[i]) =>
                /\ tasks[i].st # "ready"
                /\ ~tasks[i].raised
                /\ tasks[i].result = None
    /\ pc = "done" =>
          skipped >= Cardinality({i \in Tasks : WalksEmpty(tasks[i])})

\* A task walked a bundle to an empty list and was counted as skipped, in a
\* run that also wrote a file.
C6_Witness ==
    /\ pc = "done"
    /\ \E i \in Tasks : WalksEmpty(tasks[i]) /\ tasks[i].read /\ tasks[i].why = "nothing"
    /\ \E f \in outFiles : f.complete
    /\ skipped >= 1

\* The positions of main inside and after the call of decrypt_meta_file.
InFallback == {"dec_dll", "dec_src", "dec_key", "bk_open", "bk_init", "bk_step", "dec_ret"}
FallbackFailures == {"library missing", "source open failed", "key rejected",
                     "destination open failed", "backup failed", "reopen failed"}

\* C7: a probe that fails with a recognised error makes the run attempt the
\* decrypt-to-plaintext fallback once; the fallback is never attempted a
\* second time, and when it or the re-open fails the run ends.
C7_FallbackOnce ==
    /\ fallbackCalls <= 1
    /\ pc \in {"start", "open", "fallback"} => fallbackCalls = 0
    /\ pc \in InFallback \cup {"reopen"} => fallbackCalls = 1
    /\ db = "decrypted" => fallbackCalls = 1
    /\ fatal \in FallbackFailures =>
          /\ fallbackCalls = 1
          /\ pc \in {"dec_ret", "exit"}

\* The fallback ran once, its plaintext copy could not be opened, and the
\* run ended.
C7_Witness ==
    /\ pc = "exit"
    /\ fatal = "reopen failed"
    /\ fallbackCalls = 1

\* C8: on every fatal condition the run ends with no index query executed,
\* no task dispatched and no output file written.
FatalConditions == FallbackFailures \cup {"meta missing"}
C8_FatalBeforeDispatch ==
    fatal \in FatalConditions =>
        /\ pc \in {"dec_ret", "exit"}
        /\ ~queried
        /\ q = <<>>
        /\ tasks = <<>>
        /\ run = 1 => outFiles = {}

\* The key was rejected in a second run, over the output of the first.
C8_Witness ==
    /\ pc = "exit"
    /\ fatal = "key rejected"
    /\ run = 2
    /\ outFiles # {}

\* Byte j (from 0) of the little-endian two's-complement encoding of a
\* record key k of at most 32 bits: the upper four bytes repeat the sign.
LEByte(k, j) == IF j < 4 THEN (k \div (256 ^ j)) % 256 ELSE IF k < 0 THEN 255 ELSE 0

\* C11: for every base key and record key, the derived bundle key has length
\* 8 * len(baseKey) and its byte at position i*8 + j is baseKey[i] XOR byte j
\* of the 8-byte little-endian two's-complement encoding of the record key.
C11_DerivedKeyLayout ==
    codec.op = "keyed" =>
        /\ Len(codec.final_key) = 8 * Len(codec.base)
        /\ \A i \in 0..(Len(codec.base) - 1) : \A j \in 0..7 :
              codec.final_key[i * 8 + j + 1] = Xor(codec.base[i + 1], LEByte(codec.key, j))

\* The key of the record key -2 was derived from a base key of two bytes.
C11_Witness ==
    /\ codec.op = "keyed"
    /\ codec.base = <<83, 43>>
    /\ codec.key = -2
    /\ codec.final_key = <<173, 172, 172, 172, 172, 172, 172, 172,
                           213, 212, 212, 212, 212, 212, 212, 212>>

\* C12: for every byte buffer and every non-zero record key, decoding the
\* decoded buffer again with the same key gives the original buffer.
C12_DecodeTwiceIsIdentity ==
    (codec.op = "reloaded" /\ codec.key # 0) => codec.again = codec.raw

\* A buffer longer than the header was decoded to other bytes and decoded
\* back.
C12_Witness ==
    /\ codec.op = "reloaded"
    /\ codec.key = -256
    /\ Len(codec.raw) > HEADER + 8
    /\ codec.data # codec.raw
    /\ codec.again = codec.raw

\* C13: with the record key 0 the parser is handed exactly the raw bytes of
\* the bundle, whatever their number: no key is derived, no byte is XORed.
C13_ZeroKeyPassthrough ==
    (codec.op \in {"loaded", "reloaded"} /\ codec.key = 0) =>
        /\ codec.data = codec.raw
        /\ ~codec.derived

\* A bundle longer than its header was loaded with the record key 0.
C13_Witness ==
    /\ codec.op = "loaded"
    /\ codec.key = 0
    /\ Len(codec.raw) = HEADER + 2
    /\ codec.data = codec.raw

\* C14: with a non-zero record key the decoded buffer has the length of the
\* input, its bytes at the offsets 0..255 are the input's, its byte at each
\* offset p >= 256 is raw[p] XOR derivedKey[p mod len(derivedKey)], and a
\* buffer of at most 256 bytes is returned unchanged.
C14_HeaderKeptTailXored ==
    (codec.op = "loaded" /\ codec.key # 0) =>
        LET K == _create_final_key(BUNDLE_BASE_KEY, codec.key)
        IN  /\ Len(codec.data) = Len(codec.raw)
            /\ \A p \in 0..(Len(codec.raw) - 1) :
                  codec.data[p + 1] =
                      IF p < 256 THEN codec.raw[p + 1]
                      ELSE Xor(codec.raw[p + 1], K[(p % Len(K)) + 1])
            /\ Len(codec.raw) <= 256 => codec.data = codec.raw

\* A buffer whose encrypted part runs past the end of the derived key was
\* decoded: the byte at offset 264 was XORed with the key's first byte.
C14_Witness ==
    /\ codec.op = "loaded"
    /\ codec.key = 7
    /\ Len(codec.raw) = HEADER + 9
    /\ codec.data[256] = codec.raw[256]
    /\ codec.data[265] = Xor(codec.raw[265], Xor(83, 7))
    /\ codec.data[265] # codec.raw[265]

\* The window of a kind: the number of trailing characters of the path hint
\* parseFromPathHint reads.
Window(type) ==
    CASE type = "home" -> 16
      [] type = "lyrics" -> 11
      [] type = "preview" -> 4
      [] OTHER -> 9

\* Characters a..b-1 (from 0) of the last Window(type) characters of path.
Suffix(type, path, a, b) ==
    LET start == Len(path) - Window(type)
    IN  [i \in 1..(b - a) |-> path[start + a + i]]

\* C15: for every path hint at least as long as the kind's window,
\* parseFromPathHint slices the fixed suffix positionally: Story takes the
\* last 9 characters as group[0:2], id[2:6], idx[6:9]; Home the last 16 as
\* set[0:5], group[6:8], id[9:13], idx[13:16]; Lyrics takes as id the 4
\* characters ending 7 before the end; Preview takes as id the last 4.
C15_PathHintSlices ==
    (codec.op = "located" /\ Len(codec.path) >= Window(codec.type)) =>
        LET t == codec.type
            p == codec.path
        IN  codec.out =
              CASE t = "story" ->
                     [type |-> t, set |-> None, group |-> Suffix(t, p, 0, 2),
                      id |-> Suffix(t, p, 2, 6), idx |-> Suffix(t, p, 6, 9)]
                [] t = "home" ->
                     [type |-> t, set |-> Suffix(t, p, 0, 5), group |-> Suffix(t, p, 6, 8),
                      id |-> Suffix(t, p, 9, 13), idx |-> Suffix(t, p, 13, 16)]
                [] OTHER ->
                     [type |-> t, set |-> None, group |-> None,
                      id |-> Suffix(t, p, 0, 4), idx |-> None]

\* A lyrics hint longer than its window was parsed: the id is the four
\* characters that end seven before the end.
C15_Witness ==
    /\ codec.op = "located"
    /\ codec.type = "lyrics"
    /\ codec.path = <<"3", "6", "9", "2", "5", "8", "1", "4", "7", "0", "3", "6", "9">>
    /\ codec.out.id = <<"9", "2", "5", "8">>

\* No task is skipped at the existing-output check for a file that was cut
\* short.
ResumeSkipsOnlyComplete ==
    \A i \in Tasks :
        (tasks[i].st = "done" /\ tasks[i].why = "exists") =>
            OutputExists(args.type, tasks[i].storyId, {f \in outFiles : f.complete})

\* C16: in every reachable state, one in which a write was cut short
\* included, a file at a final output path holds the complete record; so a
\* task of a run without overwrite that is skipped for its existing output
\* is skipped for a complete file.
C16_NoPartialFileObservable ==
    /\ \A f \in outFiles : f.complete
    /\ ResumeSkipsOnlyComplete

\* C17: for every kind, a record whose path hint is shorter than the kind's
\* window ends in Skipped: its task reads no bundle, writes no output file
\* and returns None, and the batch goes on to its tally.
ShortHintTasks == {i \in Tasks : Len(Row(args.type, tasks[i].row).n) < Window(args.type)}
Built ==
    (IF codec.op \in {"ident", "text", "parsed", "queried", "located queried"}
     THEN {codec.ident} ELSE {})
        \cup (IF codec.op \in {"parsed", "queried", "located", "located queried"}
              THEN {codec.out} ELSE {})
Bare(s) == s.set = None /\ s.group = None /\ s.idx = None

\* C18: every identifier of kind Lyrics or Preview, built by the
\* constructor, parse, parseFromPathHint or queryfy, has set, group and idx
\* absent; queryfy puts no group or idx placeholder into it.
C18_LyricsPreviewBare ==
    \A s \in Built : s.type \in {"lyrics", "preview"} => Bare(s)

\* The same but for the group of a Preview identifier that queryfy returned.
LyricsPreviewBareButQueryfiedGroup ==
    \A s \in Built :
        s.type \in {"lyrics", "preview"} =>
            \/ Bare(s)
            \/ /\ codec.op \in {"queried", "located queried"}
               /\ s = codec.out
               /\ s.type = "preview"
               /\ s.set = None /\ s.idx = None /\ s.group = <<"_", "_">>

\* The text objects of the bundle a task works on, in the order of the
\* source, and those of them that have text.
SourceTexts(t) == FileOf(t).graph.assets
WithText(texts) == SelectSeq(texts, LAMBDA o : o.Text # "")

\* The blocks are the source's text objects that have text, in their order.
BlocksOfSource(blocks, t) ==
    LET src == WithText(SourceTexts(t))
    IN  /\ Len(blocks) = Len(src)
        /\ \A j \in 1..Len(blocks) :
              blocks[j].text = src[j].Text /\ blocks[j].name = src[j].Name

\* C19: for every kind, no text block with an empty text appears in an
\* extracted record: a source text object whose text is empty is left out,
\* and the blocks that remain keep the order of the source.
C19_NoEmptyTextBlock ==
    /\ \A f \in outFiles :
          \A j \in 1..Len(f.data.text_block_list) : f.data.text_block_list[j].text # ""
    /\ \A i \in Tasks :
          tasks[i].st = "ready" =>
              /\ \A j \in 1..Len(tasks[i].export.text_block_list) :
                    tasks[i].export.text_block_list[j].text # ""
              /\ BlocksOfSource(tasks[i].export.text_block_list, tasks[i])

\* The same for the kinds whose text objects go through the emptiness test
\* of extractText.
StoryHomeNoEmptyTextBlock == args.type \in {"story", "home"} => C19_NoEmptyTextBlock

\* C20: a Lyrics record whose bundle exists, is unpatched, has no existing
\* output and whose root object carries a lyric row with text ends in
\* Written, with one text block per such row in row order.
LyricsEligible(t) ==
    /\ args.type = "lyrics"
    /\ FileOf(t).exists
    /\ ~EndsWithMarker(FileOf(t).bytes)
    /\ FileOf(t).graph.parses
    /\ RootIndex(FileOf(t).graph.objects) # 0
    /\ WithText(SourceTexts(t)) # <<>>
C20_LyricsWritten ==
    \A i \in Tasks :
        /\ (LyricsEligible(tasks[i]) /\ tasks[i].st = "ready") =>
              BlocksOfSource(tasks[i].export.text_block_list, tasks[i])
        /\ (LyricsEligible(tasks[i]) /\ Returned(i) /\ tasks[i].why # "exists") =>
              /\ tasks[i].why = "written"
              /\ Truthy(tasks[i].result)

\* The tasks that have a name to write under, or have written under it.
Naming == {i \in Tasks : tasks[i].st = "ready"
                           \/ (tasks[i].st = "done" /\ tasks[i].why = "written")}
TitleOf(t) == FileOf(t).graph.objects[RootIndex(FileOf(t).graph.objects)].tree.Title

\* C21: for every kind, the name of the file a task writes is the kind's
\* filename template applied to the record's identifier and sanitized title,
\* and it is a name the existing-output check of the same record recognizes.
C21_FilenameIsTemplate ==
    \A i \in Naming :
        /\ tasks[i].filename =
               TypeConfigFilename(args.type, tasks[i].storyId,
                                  sanitizeFilename(TitleOf(tasks[i])))
        /\ OutputExists(args.type, tasks[i].storyId,
                        {[dir |-> ExportDir(args.type, tasks[i].storyId),
                          name |-> tasks[i].filename]})

\* The same for the records that do not take the titled Preview branch.
FilenameIsTemplateUntitled ==
    \A i \in Naming :
        (args.type # "preview" \/ sanitizeFilename(TitleOf(tasks[i])) = <<>>) =>
            /\ tasks[i].filename =
                   TypeConfigFilename(args.type, tasks[i].storyId,
                                      sanitizeFilename(TitleOf(tasks[i])))
            /\ OutputExists(args.type, tasks[i].storyId,
                            {[dir |-> ExportDir(args.type, tasks[i].storyId),
                              name |-> tasks[i].filename]})

\* The path a task writes or has written.
PathOf(t) == [dir |-> ExportDir(args.type, t.storyId), name |-> t.filename]

\* C22: in every run, for every query result and every interleaving of the
\* worker pool, no two tasks write the same output file: two distinct
\* records of one batch never resolve to the same output path.
C22_NoSharedOutputPath ==
    \A i \in Naming : \A j \in Naming :
        i # j => PathOf(tasks[i]) # PathOf(tasks[j])

\* C23: the backup loop keeps stepping while a step returns status 0,
\* reports success exactly when a step returns 101 after only 0 statuses,
\* and on the first status that is neither 0 nor 101 stops and reports that
\* status, which decrypt_meta_file turns into a failure of the whole open;
\* on every such path the backup is finished exactly once and the
\* destination handle is closed.
C23_BackupLoop ==
    /\ dec.finishes <= 1
    /\ pc = "bk_step" =>
          /\ dec.rc = SQLITE_OK
          /\ dec.finishes = 0
          /\ dec.dstOpen
    /\ (pc = "dec_ret" /\ dec.rc # SQLITE_OK) =>
          /\ dec.finishes = 1
          /\ ~dec.dstOpen
          /\ IF dec.rc = SQLITE_DONE
             THEN dec.result /\ dec.rc_bk = SQLITE_OK /\ fatal = ""
             ELSE ~dec.result /\ dec.rc_bk = dec.rc /\ fatal = "backup failed"
    /\ (pc = "dec_ret" /\ dec.result) => dec.rc = SQLITE_DONE
    /\ fatal = "backup failed" =>
          /\ pc \in {"dec_ret", "exit"}
          /\ db # "decrypted"
          /\ ~queried

\* After two steps of status 0 a step returned the status 5: the backup was
\* finished, the destination closed and the open failed.
C23_Witness ==
    /\ pc = "dec_ret"
    /\ dec.steps = 2
    /\ dec.rc = 5
    /\ dec.rc_bk = 5
    /\ dec.finishes = 1
    /\ ~dec.dstOpen
    /\ fatal = "backup failed"

\* The identifier a run is narrowed to.
Narrowed == [type |-> codec.type, set |-> codec.set, group |-> codec.group,
             id |-> codec.id, idx |-> codec.idx]

\* C24: for every kind and every fully specified identifier, every path hint
\* that matches the identifier's query pattern is parsed by parseFromPathHint
\* back to that identifier, so a run narrowed to one identifier writes output
\* only under it.
C24_SelectedHintParsesBack ==
    codec.op = "exported" => codec.out = Narrowed

\* The same for the rows that carry the game's name of the identifier, which
\* the pattern selects, and for every selected row of Lyrics and Preview.
GameNameParsesBack ==
    /\ (codec.op \in {"selected", "rejected"} /\ codec.n = GameName(codec.type, Narrowed))
          => codec.op = "selected"
    /\ (codec.op = "exported"
          /\ (codec.type \in {"lyrics", "preview"}
                 \/ codec.n = GameName(codec.type, Narrowed)))
          => codec.out = Narrowed

====
